---- MODULE Spec2Model ----
(***************************************************************************)
(* Transaction processor of kitesurf-transaction-processor.                *)
(*                                                                         *)
(* process_tx (src/src/transaction.rs) folds one transaction record into   *)
(* two hash maps: accounts (client id -> ClientAccount) and tx_states      *)
(* (tx id -> TxState).  The binary (src/src/main.rs) carries its own copy  *)
(* of process_tx and the driver loop that feeds it; both are modelled.     *)
(*                                                                         *)
(* Amounts are f32 in the source.  The model keeps the f32 values that are *)
(* whole numbers and computes + and - as the hardware does: the exact      *)
(* result rounded to 24 significant bits, ties to even.  NaN, infinities   *)
(* and fractions are outside the model.                                    *)
(***************************************************************************)
EXTENDS Integers, Sequences, FiniteSets, TLC

VARIABLES
    accounts,        \* transaction.rs: HashMap<u16, ClientAccount>
    tx_states,       \* transaction.rs: HashMap<u32, TxState>
    last_res,        \* the Result of the latest process_tx call
    nrec,            \* number of process_tx calls so far
    main_txs,        \* main.rs: txs, the Vec<Tx> read_csv returned
    main_accounts,   \* main.rs: accounts
    main_tx_states,  \* main.rs: tx_states
    main_res,        \* the Results of the calls of main's loop, in order
    main_pc,         \* where main is: "loop", "exit_ok", "exit_err" ("idle": not run)
    stdout,          \* what output_to_stdout was given: None or Some(accounts)
    accounts2,       \* accounts of a second, independent run of process_tx
    tx_states2       \* tx_states of the second run

vars == <<accounts, tx_states, last_res, nrec,
          main_txs, main_accounts, main_tx_states, main_res, main_pc, stdout,
          accounts2, tx_states2>>

lib_vars == <<accounts, tx_states, last_res, nrec>>

main_vars == <<main_txs, main_accounts, main_tx_states, main_res, main_pc, stdout>>

twin_vars == <<accounts2, tx_states2>>

-----------------------------------------------------------------------------
(* Bounds of the model *)

\* process_tx calls in Spec
MaxRecords == 3

\* process_tx calls in SpecDeep, which has fewer records to choose from
MaxDeepRecords == 4

\* length of the input file in SpecMain
MaxInput == 3

\* process_tx calls in SpecOwner
MaxOwnerRecords == 4

\* records fed to the two copies of process_tx in SpecBoth
MaxBothRecords == 3

\* records fed to the two runs of SpecTwin, together
MaxTwinRecords == 3

Clients == {1, 2}

TxIds == {1, 2, 3}

\* 16777216 = 2^24 is the first f32 whose successor is 2 away
Amounts == {-1, 1, 2, 16777216}

-----------------------------------------------------------------------------
(* f32 arithmetic on whole numbers *)

\* 2^24: every whole number of magnitude up to this one is an f32 (f32 has a
\* 24-bit significand)
F32_EXACT_MAX == 16777216

Abs(x) == IF x < 0 THEN -x ELSE x

\* distance between neighbouring f32 values around magnitude m
RECURSIVE Ulp(_, _)
Ulp(m, q) == IF m < F32_EXACT_MAX * q THEN q ELSE Ulp(m, 2 * q)

\* round to nearest f32, ties to the even significand
F32Round(x) ==
    IF Abs(x) <= F32_EXACT_MAX THEN x
    ELSE LET m  == Abs(x)
             q  == Ulp(m, 1)
             lo == (m \div q) * q
             r  == m - lo
             up == \/ 2 * r > q
                   \/ (2 * r = q /\ (lo \div q) % 2 = 1)
             y  == IF up THEN lo + q ELSE lo
         IN  IF x < 0 THEN -y ELSE y

F32Add(a, b) == F32Round(a + b)

F32Sub(a, b) == F32Round(a - b)

-----------------------------------------------------------------------------
(* Records and state types *)

TxTypes == {"Deposit", "Withdrawal", "Dispute", "Resolve", "Chargeback"}

None == <<>>

Some(a) == <<a>>

Unwrap(o) == o[1]

\* struct Tx
Tx(type_, client_id, tx_id, amount) ==
    [type_ |-> type_, client_id |-> client_id, tx_id |-> tx_id, amount |-> amount]

\* the records the reader can deliver, within the bounds
Records ==
    { Tx(t, c, i, a) : t \in {"Deposit", "Withdrawal"}, c \in Clients,
                       i \in TxIds, a \in {None} \cup {Some(x) : x \in Amounts} }
    \cup { Tx(t, c, i, None) : t \in {"Dispute", "Resolve", "Chargeback"},
                                c \in Clients, i \in TxIds }

\* TxState::new
TxStateNew(amount, type_, client_id) ==
    [amount |-> amount, type_ |-> type_, client_id |-> client_id,
     disputed |-> FALSE, charged_back |-> FALSE]

\* variant: the client field is left at its default
ClientAccountNewNoKey(client_id) ==
    [client |-> 0, available |-> 0, held |-> 0, total |-> 0, locked |-> FALSE]

\* ClientAccount::new
ClientAccountNew(client_id) ==
    [client |-> client_id, available |-> 0, held |-> 0, total |-> 0,
     locked |-> FALSE]

\* accounts.entry(client_id).or_insert(ClientAccount::new(client_id))
OrInsert(accs, client_id) ==
    IF client_id \in DOMAIN accs THEN accs
    ELSE accs @@ (client_id :> ClientAccountNew(client_id))

\* variant: the insert starts the ledger afresh
InsertClearing(txs, tx_id, state) == (tx_id :> state)

\* tx_states.insert(tx_id, state)
Insert(txs, tx_id, state) ==
    IF tx_id \in DOMAIN txs THEN [txs EXCEPT ![tx_id] = state]
    ELSE txs @@ (tx_id :> state)

-----------------------------------------------------------------------------
(* process_tx of transaction.rs, branch by branch *)

\* the outcome of one call: the Result and the two maps as the call leaves them
Outcome(res, accs, txs) == [res |-> res, accounts |-> accs, tx_states |-> txs]

\* variant: the lock is never honoured
IsLockedNever(account) == FALSE

\* if account.locked == true { return Ok(()) }
IsLocked(account) == account.locked = TRUE

\* variant: the kind of the entry is not looked at, as in main.rs
DisputeGuardAnyKind(tx_state) == tx_state.disputed = FALSE

\* variant: the disputed flag is not looked at
DisputeGuardAnyState(tx_state) == tx_state.type_ = "Deposit"

DisputeGuard(tx_state) ==
    tx_state.disputed = FALSE /\ tx_state.type_ = "Deposit"

ResolveGuard(tx_state) ==
    tx_state.disputed = TRUE /\ tx_state.type_ = "Deposit"

\* variant: the disputed flag is not looked at
ChargebackGuardAnyState(tx_state) == tx_state.type_ = "Deposit"

ChargebackGuard(tx_state) ==
    tx_state.disputed = TRUE /\ tx_state.type_ = "Deposit"

\* variant: the funds are not checked
SufficientFundsAlways(amount, account) == TRUE

\* variant: the strict comparison of main.rs
SufficientFundsStrict(amount, account) == amount < account.available

\* amount <= account.available
SufficientFunds(amount, account) == amount <= account.available

\* each effect gives the account and the ledger entry after the branch
DisputeEffect(account, tx_state) ==
    [account  |-> [account EXCEPT
                     !.available = F32Sub(account.available, tx_state.amount),
                     !.held      = F32Add(account.held, tx_state.amount)],
     tx_state |-> [tx_state EXCEPT !.disputed = TRUE, !.charged_back = FALSE]]

ResolveEffect(account, tx_state) ==
    [account  |-> [account EXCEPT
                     !.available = F32Add(account.available, tx_state.amount),
                     !.held      = F32Sub(account.held, tx_state.amount)],
     tx_state |-> [tx_state EXCEPT !.disputed = FALSE, !.charged_back = FALSE]]

\* variant: the chargeback leaves the disputed flag set
ChargebackEffectKeepsDisputed(account, tx_state) ==
    [account  |-> [account EXCEPT
                     !.total  = F32Sub(account.total, tx_state.amount),
                     !.held   = F32Sub(account.held, tx_state.amount),
                     !.locked = TRUE],
     tx_state |-> [tx_state EXCEPT !.charged_back = TRUE]]

\* variant: the amount is taken from available, not from held
ChargebackEffectFromAvailable(account, tx_state) ==
    [account  |-> [account EXCEPT
                     !.total     = F32Sub(account.total, tx_state.amount),
                     !.available = F32Sub(account.available, tx_state.amount),
                     !.locked    = TRUE],
     tx_state |-> [tx_state EXCEPT !.disputed = FALSE, !.charged_back = TRUE]]

ChargebackEffect(account, tx_state) ==
    [account  |-> [account EXCEPT
                     !.total  = F32Sub(account.total, tx_state.amount),
                     !.held   = F32Sub(account.held, tx_state.amount),
                     !.locked = TRUE],
     tx_state |-> [tx_state EXCEPT !.disputed = FALSE, !.charged_back = TRUE]]

\* variant: the deposit is booked with its sign
DepositEffectNoAbs(account, amount, client_id) ==
    [account  |-> [account EXCEPT
                     !.total     = F32Add(account.total, amount),
                     !.available = F32Add(account.available, amount)],
     tx_state |-> TxStateNew(amount, "Deposit", client_id)]

DepositEffect(account, amount, client_id) ==
    [account  |-> [account EXCEPT
                     !.total     = F32Add(account.total, Abs(amount)),
                     !.available = F32Add(account.available, Abs(amount))],
     tx_state |-> TxStateNew(amount, "Deposit", client_id)]

WithdrawalEffect(account, amount, client_id) ==
    [account  |-> [account EXCEPT
                     !.total     = F32Sub(account.total, amount),
                     !.available = F32Sub(account.available, amount)],
     tx_state |-> TxStateNew(-amount, "Withdrawal", client_id)]

\* variant: an ignored record is reported as an error
IgnoredAsError(accs, txs) == Outcome("Err", accs, txs)

\* the arms that do nothing and fall through to Ok(())
Ignored(accs, txs) == Outcome("Ok", accs, txs)

\* variant: a record without amount is ignored like any other no-op
MissingAmountIgnored(tx, accs, txs) == Outcome("Ok", accs, txs)

\* variant: the ledger entry is inserted before the amount is read
MissingAmountInsertsFirst(tx, accs, txs) ==
    Outcome("Err", accs, Insert(txs, tx.tx_id, TxStateNew(0, tx.type_, tx.client_id)))

\* tx.amount.ok_or(Error::new(..))? on None: return the error, with the maps as
\* they are at that point
MissingAmount(tx, accs, txs) == Outcome("Err", accs, txs)

\* Some(tx_state) arm of the match
EntryPresent(tx, accs, txs) ==
    LET account  == accs[tx.client_id]
        tx_state == txs[tx.tx_id]
        Apply(e) == Outcome("Ok", [accs EXCEPT ![tx.client_id] = e.account],
                                  [txs EXCEPT ![tx.tx_id] = e.tx_state])
    IN  CASE tx.type_ = "Deposit"    -> Ignored(accs, txs)
          [] tx.type_ = "Withdrawal" -> Ignored(accs, txs)
          [] tx.type_ = "Dispute"    ->
                IF DisputeGuard(tx_state)
                THEN Apply(DisputeEffect(account, tx_state))
                ELSE Ignored(accs, txs)
          [] tx.type_ = "Resolve"    ->
                IF ResolveGuard(tx_state)
                THEN Apply(ResolveEffect(account, tx_state))
                ELSE Ignored(accs, txs)
          [] tx.type_ = "Chargeback" ->
                IF ChargebackGuard(tx_state)
                THEN Apply(ChargebackEffect(account, tx_state))
                ELSE Ignored(accs, txs)

\* None arm of the match
EntryAbsent(tx, accs, txs) ==
    LET account  == accs[tx.client_id]
        Apply(e) == Outcome("Ok", [accs EXCEPT ![tx.client_id] = e.account],
                                  Insert(txs, tx.tx_id, e.tx_state))
    IN  CASE tx.type_ = "Deposit"    ->
                IF tx.amount = None THEN MissingAmount(tx, accs, txs)
                ELSE Apply(DepositEffect(account, Unwrap(tx.amount), tx.client_id))
          [] tx.type_ = "Withdrawal" ->
                IF tx.amount = None THEN MissingAmount(tx, accs, txs)
                ELSE IF SufficientFunds(Unwrap(tx.amount), account)
                     THEN Apply(WithdrawalEffect(account, Unwrap(tx.amount),
                                                 tx.client_id))
                     ELSE Ignored(accs, txs)
          [] tx.type_ = "Dispute"    -> Ignored(accs, txs)
          [] tx.type_ = "Resolve"    -> Ignored(accs, txs)
          [] tx.type_ = "Chargeback" -> Ignored(accs, txs)

\* variant: a Deposit or Withdrawal is not checked against the ledger, so a used
\* tx id is taken again
process_tx_NoDuplicateCheck(tx, accs0, txs) ==
    LET accs == OrInsert(accs0, tx.client_id)
    IN  IF IsLocked(accs[tx.client_id]) THEN Outcome("Ok", accs, txs)
        ELSE IF tx.tx_id \in DOMAIN txs /\ tx.type_ \notin {"Deposit", "Withdrawal"}
        THEN EntryPresent(tx, accs, txs)
        ELSE EntryAbsent(tx, accs, txs)

\* variant: the lock is looked at only once the record is known to target an
\* entry
process_tx_LockAfterLookup(tx, accs0, txs) ==
    LET accs == OrInsert(accs0, tx.client_id)
    IN  IF tx.tx_id \in DOMAIN txs
        THEN IF IsLocked(accs[tx.client_id]) THEN Outcome("Ok", accs, txs)
             ELSE EntryPresent(tx, accs, txs)
        ELSE EntryAbsent(tx, accs, txs)

process_tx(tx, accs0, txs) ==
    LET accs == OrInsert(accs0, tx.client_id)
    IN  IF IsLocked(accs[tx.client_id]) THEN Outcome("Ok", accs, txs)
        ELSE IF tx.tx_id \in DOMAIN txs THEN EntryPresent(tx, accs, txs)
        ELSE EntryAbsent(tx, accs, txs)

-----------------------------------------------------------------------------
(* process_tx of main.rs: the copy the binary runs.  Its TxState has no kind *)
(* field, its dispute and resolve move amount.abs(), and its withdrawal     *)
(* needs amount < available.                                                *)

\* main.rs TxState::new
MainTxStateNew(amount, client_id) ==
    [amount |-> amount, client_id |-> client_id,
     disputed |-> FALSE, charged_back |-> FALSE]

MainDisputeGuard(tx_state) == tx_state.disputed = FALSE

MainResolveGuard(tx_state) == tx_state.disputed = TRUE

MainChargebackGuard(tx_state) == tx_state.disputed = TRUE

MainSufficientFunds(amount, account) == amount < account.available

MainDisputeEffect(account, tx_state) ==
    [account  |-> [account EXCEPT
                     !.available = F32Sub(account.available, Abs(tx_state.amount)),
                     !.held      = F32Add(account.held, Abs(tx_state.amount))],
     tx_state |-> [tx_state EXCEPT !.disputed = TRUE, !.charged_back = FALSE]]

MainResolveEffect(account, tx_state) ==
    [account  |-> [account EXCEPT
                     !.available = F32Add(account.available, Abs(tx_state.amount)),
                     !.held      = F32Sub(account.held, Abs(tx_state.amount))],
     tx_state |-> [tx_state EXCEPT !.disputed = FALSE, !.charged_back = FALSE]]

MainChargebackEffect(account, tx_state) ==
    [account  |-> [account EXCEPT
                     !.total  = F32Sub(account.total, tx_state.amount),
                     !.held   = F32Sub(account.held, tx_state.amount),
                     !.locked = TRUE],
     tx_state |-> [tx_state EXCEPT !.disputed = FALSE, !.charged_back = TRUE]]

MainDepositEffect(account, amount, client_id) ==
    [account  |-> [account EXCEPT
                     !.total     = F32Add(account.total, Abs(amount)),
                     !.available = F32Add(account.available, Abs(amount))],
     tx_state |-> MainTxStateNew(amount, client_id)]

MainWithdrawalEffect(account, amount, client_id) ==
    [account  |-> [account EXCEPT
                     !.total     = F32Sub(account.total, amount),
                     !.available = F32Sub(account.available, amount)],
     tx_state |-> MainTxStateNew(-amount, client_id)]

main_process_tx(tx, accs0, txs) ==
    LET accs     == OrInsert(accs0, tx.client_id)
        account  == accs[tx.client_id]
        tx_state == txs[tx.tx_id]
        Update(e) == Outcome("Ok", [accs EXCEPT ![tx.client_id] = e.account],
                                   [txs EXCEPT ![tx.tx_id] = e.tx_state])
        Create(e) == Outcome("Ok", [accs EXCEPT ![tx.client_id] = e.account],
                                   Insert(txs, tx.tx_id, e.tx_state))
        Skip      == Outcome("Ok", accs, txs)
        Fail      == Outcome("Err", accs, txs)
    IN  IF account.locked = TRUE THEN Skip
        ELSE IF tx.tx_id \in DOMAIN txs
        THEN CASE tx.type_ = "Deposit"    -> Skip
               [] tx.type_ = "Withdrawal" -> Skip
               [] tx.type_ = "Dispute"    ->
                     IF MainDisputeGuard(tx_state)
                     THEN Update(MainDisputeEffect(account, tx_state)) ELSE Skip
               [] tx.type_ = "Resolve"    ->
                     IF MainResolveGuard(tx_state)
                     THEN Update(MainResolveEffect(account, tx_state)) ELSE Skip
               [] tx.type_ = "Chargeback" ->
                     IF MainChargebackGuard(tx_state)
                     THEN Update(MainChargebackEffect(account, tx_state)) ELSE Skip
        ELSE CASE tx.type_ = "Deposit"    ->
                     IF tx.amount = None THEN Fail
                     ELSE Create(MainDepositEffect(account, Unwrap(tx.amount),
                                                   tx.client_id))
               [] tx.type_ = "Withdrawal" ->
                     IF tx.amount = None THEN Fail
                     ELSE IF MainSufficientFunds(Unwrap(tx.amount), account)
                          THEN Create(MainWithdrawalEffect(account,
                                          Unwrap(tx.amount), tx.client_id))
                          ELSE Skip
               [] tx.type_ = "Dispute"    -> Skip
               [] tx.type_ = "Resolve"    -> Skip
               [] tx.type_ = "Chargeback" -> Skip

-----------------------------------------------------------------------------
(* The processor as a state machine: any record, one at a time *)

\* HashMap::new()
EmptyMap == << >>

LibInit ==
    /\ accounts = EmptyMap
    /\ tx_states = EmptyMap
    /\ last_res = "Ok"
    /\ nrec = 0

MainIdle ==
    /\ main_txs = << >>
    /\ main_accounts = EmptyMap
    /\ main_tx_states = EmptyMap
    /\ main_res = << >>
    /\ main_pc = "idle"
    /\ stdout = None

TwinIdle ==
    /\ accounts2 = EmptyMap
    /\ tx_states2 = EmptyMap

Init == LibInit /\ MainIdle /\ TwinIdle

\* one call process_tx(tx, &mut accounts, &mut tx_states)
CallLib(tx) ==
    LET out == process_tx(tx, accounts, tx_states)
    IN  /\ accounts' = out.accounts
        /\ tx_states' = out.tx_states
        /\ last_res' = out.res
        /\ nrec' = nrec + 1

\* the call, with nothing else running
Call(tx) ==
    /\ CallLib(tx)
    /\ UNCHANGED main_vars
    /\ UNCHANGED twin_vars

ProcessRecord(tx) == nrec < MaxRecords /\ Call(tx)

Next == \E tx \in Records : ProcessRecord(tx)

Spec == Init /\ [][Next]_vars

\* The same processor fed one amount besides 2^24 and two tx ids, one call
\* longer.
DeepRecords ==
    { r \in Records : /\ r.tx_id \in {1, 2}
                      /\ r.amount # None => Unwrap(r.amount) \in {1, F32_EXACT_MAX} }

ProcessDeepRecord(tx) == nrec < MaxDeepRecords /\ Call(tx)

NextDeep == \E tx \in DeepRecords : ProcessDeepRecord(tx)

SpecDeep == Init /\ [][NextDeep]_vars

\* The input in which a Dispute, Resolve or Chargeback that names an entry
\* comes from the client that owns the entry; amounts are positive.
OwnerOnly(tx) ==
    (tx.type_ \in {"Dispute", "Resolve", "Chargeback"} /\ tx.tx_id \in DOMAIN tx_states)
        => tx_states[tx.tx_id].client_id = tx.client_id

ProcessOwnRecord(tx) == nrec < MaxOwnerRecords /\ OwnerOnly(tx) /\ Call(tx)

NextOwner == \E tx \in DeepRecords : ProcessOwnRecord(tx)

SpecOwner == Init /\ [][NextOwner]_vars

-----------------------------------------------------------------------------
(* main of main.rs: read the file, feed every record to process_tx, write *)

\* the files read_csv can return, within the bounds
InputRecords ==
    { r \in Records : /\ r.client_id = 1
                      /\ r.tx_id \in {1, 2}
                      /\ r.amount # None => Unwrap(r.amount) = 1 }

Inputs == UNION { [1..n -> InputRecords] : n \in 0..MaxInput }

MainInit ==
    /\ LibInit
    /\ main_txs \in Inputs
    /\ main_accounts = EmptyMap
    /\ main_tx_states = EmptyMap
    /\ main_res = << >>
    /\ main_pc = "loop"
    /\ stdout = None
    /\ TwinIdle

\* variant: the error is dropped and the loop goes on
QuestionMarkDropsError(res) == "loop"

\* the ? of process_tx(tx, &mut accounts, &mut tx_states)?: an Err returns from
\* main, an Ok goes on with the loop
QuestionMark(res) == IF res = "Err" THEN "exit_err" ELSE "loop"

\* one iteration of for tx in txs.clone()
MainLoop ==
    /\ main_pc = "loop"
    /\ Len(main_res) < Len(main_txs)
    /\ LET out == main_process_tx(main_txs[Len(main_res) + 1],
                                  main_accounts, main_tx_states)
       IN  /\ main_accounts' = out.accounts
           /\ main_tx_states' = out.tx_states
           /\ main_res' = Append(main_res, out.res)
           /\ main_pc' = QuestionMark(out.res)
    /\ UNCHANGED <<main_txs, stdout>>
    /\ UNCHANGED lib_vars
    /\ UNCHANGED twin_vars

\* output_to_stdout(accounts, ..) after the loop, then Ok(())
MainOutput ==
    /\ main_pc = "loop"
    /\ Len(main_res) = Len(main_txs)
    /\ stdout' = Some(main_accounts)
    /\ main_pc' = "exit_ok"
    /\ UNCHANGED <<main_txs, main_accounts, main_tx_states, main_res>>
    /\ UNCHANGED lib_vars
    /\ UNCHANGED twin_vars

MainNext == MainLoop \/ MainOutput

SpecMain == MainInit /\ [][MainNext]_vars

-----------------------------------------------------------------------------
(* Two runs of process_tx from empty maps.  Both are fed the same records of *)
(* the observed client, in the same order; each is fed records of the other  *)
(* client of its own.  Deposits and withdrawals of the two clients use       *)
(* different tx ids; a Dispute, Resolve or Chargeback can name any tx id.    *)

ObservedClient == 1

ObservedRecords ==
    { r \in Records : /\ r.client_id = ObservedClient
                      /\ r.tx_id = 1
                      /\ r.amount # None => Unwrap(r.amount) \in {1, 2} }

OtherRecords ==
    { r \in Records : /\ r.client_id # ObservedClient
                      /\ r.tx_id \in {1, 2}
                      /\ r.type_ \in {"Deposit", "Withdrawal"} => r.tx_id = 2
                      /\ r.amount # None => Unwrap(r.amount) \in {1, 2} }

\* one call process_tx(tx, &mut accounts2, &mut tx_states2) of the second run
Call2(tx) ==
    LET out == process_tx(tx, accounts2, tx_states2)
    IN  /\ accounts2' = out.accounts
        /\ tx_states2' = out.tx_states

\* a record of the observed client: both runs process it
ObservedRecord(tx) ==
    /\ nrec < MaxTwinRecords
    /\ CallLib(tx) /\ Call2(tx)
    /\ UNCHANGED main_vars

\* a record of the other client in the input of the first run only
OtherRecordRun1(tx) ==
    /\ nrec < MaxTwinRecords
    /\ Call(tx)

\* a record of the other client in the input of the second run only
OtherRecordRun2(tx) ==
    /\ nrec < MaxTwinRecords
    /\ Call2(tx)
    /\ nrec' = nrec + 1
    /\ UNCHANGED <<accounts, tx_states, last_res>>
    /\ UNCHANGED main_vars

NextTwin ==
    \/ \E tx \in ObservedRecords : ObservedRecord(tx)
    \/ \E tx \in OtherRecords : OtherRecordRun1(tx)
    \/ \E tx \in OtherRecords : OtherRecordRun2(tx)

SpecTwin == Init /\ [][NextTwin]_vars

-----------------------------------------------------------------------------
(* The two copies of process_tx side by side: every record goes to the one *)
(* of transaction.rs, on accounts and tx_states, and to the one of main.rs, *)
(* on main_accounts and main_tx_states, both starting from empty maps.      *)

\* one call of main.rs's process_tx(tx, &mut accounts, &mut tx_states)
CallMain(tx) ==
    LET out == main_process_tx(tx, main_accounts, main_tx_states)
    IN  /\ main_accounts' = out.accounts
        /\ main_tx_states' = out.tx_states
        /\ main_res' = Append(main_res, out.res)

BothRecord(tx) ==
    /\ nrec < MaxBothRecords
    /\ CallLib(tx) /\ CallMain(tx)
    /\ UNCHANGED <<main_txs, main_pc, stdout>>
    /\ UNCHANGED twin_vars

NextBoth == \E tx \in DeepRecords : BothRecord(tx)

SpecBoth == Init /\ [][NextBoth]_vars

-----------------------------------------------------------------------------
(* Properties *)

\* what process_tx would leave and return if tx were the next record
After(tx) == process_tx(tx, accounts, tx_states)

\* the client already has an account and it is locked
Locked(c) == c \in DOMAIN accounts /\ accounts[c].locked

\* the account process_tx works on: the client's, created if the client is new
AccountOf(c) == OrInsert(accounts, c)[c]

HasAmount(tx) == tx.amount # None

\* C1: after every call of process_tx every account has
\* total == available + held (compared as the f32 == compares them).
C1_TotalIsAvailablePlusHeld ==
    \A c \in DOMAIN accounts :
        accounts[c].total = F32Add(accounts[c].available, accounts[c].held)

\* C2: once an account is locked, no record of any type, client or tx id
\* changes its available, held or total, and it stays locked.
C2_LockedAccountIsFrozen ==
    \A c \in DOMAIN accounts :
        accounts[c].locked =>
            \A tx \in Records : After(tx).accounts[c] = accounts[c]

\* a locked account, and a deposit for it that an unlocked account would take
C2_Witness ==
    \E tx \in Records :
        /\ Locked(tx.client_id)
        /\ tx.type_ = "Deposit" /\ HasAmount(tx)
        /\ tx.tx_id \notin DOMAIN tx_states
        /\ After(tx).accounts[tx.client_id] = accounts[tx.client_id]

\* C3: a record whose client's account is locked returns Ok and leaves every
\* account and every ledger entry as it was, and creates no ledger entry.
C3_LockedRecordIsNoOp ==
    \A tx \in Records :
        Locked(tx.client_id) => After(tx) = Outcome("Ok", accounts, tx_states)

\* a locked client disputes an entry whose flags would let the dispute through
C3_Witness ==
    \E tx \in Records :
        /\ Locked(tx.client_id)
        /\ tx.type_ = "Dispute"
        /\ tx.tx_id \in DOMAIN tx_states
        /\ DisputeGuard(tx_states[tx.tx_id])
        /\ After(tx) = Outcome("Ok", accounts, tx_states)

Normal(e) == ~e.disputed /\ ~e.charged_back

Disputed(e) == e.disputed /\ ~e.charged_back

ChargedBack(e) == e.charged_back

\* this step is the call process_tx(tx, ..) for a record of the given type that
\* targets entry t
StepBy(type_, t) ==
    \E tx \in Records :
        /\ tx.type_ = type_ /\ tx.tx_id = t
        /\ accounts' = After(tx).accounts
        /\ tx_states' = After(tx).tx_states

\* C4: the dispute state of a ledger entry changes only Normal -> Disputed by a
\* Dispute, Disputed -> Normal by a Resolve and Disputed -> ChargedBack by a
\* Chargeback; an entry with charged_back == true keeps its flags for ever.
C4_DisputeLifecycle ==
    [][\A t \in DOMAIN tx_states :
          LET b == tx_states[t]
              a == tx_states'[t]
          IN  /\ (a.disputed # b.disputed \/ a.charged_back # b.charged_back) =>
                    \/ Normal(b) /\ Disputed(a) /\ StepBy("Dispute", t)
                    \/ Disputed(b) /\ Normal(a) /\ StepBy("Resolve", t)
                    \/ Disputed(b) /\ ChargedBack(a) /\ StepBy("Chargeback", t)
              /\ b.charged_back =>
                    a.charged_back = b.charged_back /\ a.disputed = b.disputed
      ]_vars

MissingAmountRecord(tx) ==
    tx.type_ \in {"Deposit", "Withdrawal"} /\ tx.amount = None

\* C5 as claimed: a Deposit or Withdrawal without an amount is an error in
\* every state, also when its tx id has an entry or its account is locked.
C5_MissingAmountAlwaysFails ==
    \A tx \in Records : MissingAmountRecord(tx) => After(tx).res = "Err"

\* C5 as amended: a Deposit or Withdrawal without an amount is an error exactly
\* when its client's account is not locked and its tx id has no ledger entry;
\* otherwise it returns Ok.
C5_MissingAmountFailsWhenReached ==
    \A tx \in Records :
        MissingAmountRecord(tx) =>
            /\ After(tx).res \in {"Ok", "Err"}
            /\ After(tx).res = "Err" <=>
                  (~Locked(tx.client_id) /\ tx.tx_id \notin DOMAIN tx_states)

\* the error was returned with entries in the ledger, one of them disputed, so
\* both outcomes of an amount-less record are at hand
C5_Witness ==
    /\ last_res = "Err"
    /\ \E t \in DOMAIN tx_states : tx_states[t].disputed
    /\ \E tx \in Records : MissingAmountRecord(tx) /\ After(tx).res = "Ok"
    /\ \E tx \in Records : MissingAmountRecord(tx) /\ After(tx).res = "Err"

\* C6 as claimed: a call that fails leaves the account table and the ledger
\* exactly as they were.
C6_ErrorLeavesStateUntouched ==
    [][last_res' = "Err" => accounts' = accounts /\ tx_states' = tx_states]_vars

\* C6 as amended: a call that fails leaves the ledger and every existing account
\* as they were; the one change is that a client the table did not hold gets a
\* new account with zero balances, unlocked.
C6_ErrorOnlyCreatesAccount ==
    \A tx \in Records :
        After(tx).res = "Err" =>
            /\ After(tx).tx_states = tx_states
            /\ \A c \in DOMAIN accounts : After(tx).accounts[c] = accounts[c]
            /\ DOMAIN After(tx).accounts = DOMAIN accounts \cup {tx.client_id}
            /\ After(tx).accounts[tx.client_id] = AccountOf(tx.client_id)
            /\ tx.client_id \notin DOMAIN accounts =>
                  After(tx).accounts[tx.client_id] =
                      [client |-> tx.client_id, available |-> 0, held |-> 0,
                       total |-> 0, locked |-> FALSE]

\* the latest call failed and was the first to mention its client: the client
\* has a zero account and owns nothing in the ledger, next to another client's
\* deposit
C6_Witness ==
    /\ last_res = "Err"
    /\ tx_states # EmptyMap
    /\ \E c \in DOMAIN accounts :
          /\ accounts[c] = ClientAccountNew(c)
          /\ \A t \in DOMAIN tx_states : tx_states[t].client_id # c

\* C7: process_tx returns an error only for a Deposit or Withdrawal without an
\* amount; every other record returns Ok in every reachable state.
C7_OnlyMissingAmountFails ==
    \A tx \in Records :
        /\ After(tx).res \in {"Ok", "Err"}
        /\ After(tx).res = "Err" => MissingAmountRecord(tx)

\* a state that offers the ignored cases: a disputed entry (repeated dispute),
\* a used tx id (duplicate), an unknown tx id, a withdrawal beyond the funds
C7_Witness ==
    /\ last_res = "Ok"
    /\ \E t \in DOMAIN tx_states : tx_states[t].disputed
    /\ \E tx \in Records :
          /\ tx.type_ = "Withdrawal" /\ HasAmount(tx)
          /\ tx.tx_id \notin DOMAIN tx_states
          /\ ~Locked(tx.client_id)
          /\ Unwrap(tx.amount) > AccountOf(tx.client_id).available
          /\ After(tx) = Outcome("Ok", OrInsert(accounts, tx.client_id), tx_states)

\* main has returned
MainDone == main_pc \in {"exit_ok", "exit_err"}

\* C8 as claimed: a failing record is dropped and the run goes on, so when main
\* returns every record was processed and the account table was written.
C8_DriverContinuesAfterError ==
    MainDone => Len(main_res) = Len(main_txs) /\ stdout # None

\* C8 as amended: the first record whose process_tx fails ends the run: main
\* returns the error, no later record is processed and the account table is
\* not written; the table is written only after every record returned Ok.
C8_DriverStopsAtFirstError ==
    /\ \A i \in 1..Len(main_res) :
          main_res[i] = "Err" =>
              i = Len(main_res) /\ main_pc = "exit_err" /\ stdout = None
    /\ main_pc = "exit_err" =>
          Len(main_res) >= 1 /\ main_res[Len(main_res)] = "Err"
    /\ stdout # None =>
          /\ main_pc = "exit_ok"
          /\ Len(main_res) = Len(main_txs)
          /\ \A i \in 1..Len(main_res) : main_res[i] = "Ok"
          /\ stdout = Some(main_accounts)

\* main returned the error after a record that was applied, with a record
\* still unread
C8_Witness ==
    /\ main_pc = "exit_err"
    /\ Len(main_res) = 2
    /\ Len(main_txs) = 3
    /\ main_tx_states # EmptyMap
    /\ stdout = None

\* C9: a Deposit with amount a, on an unused tx id and an unlocked account,
\* returns Ok, creates the entry (kind Deposit, owned by the record's client,
\* both flags false), adds |a| to total and to available, and leaves held,
\* locked, every other account and every other entry as they were.
C9_DepositEffect ==
    \A tx \in Records :
        (/\ tx.type_ = "Deposit" /\ HasAmount(tx)
         /\ tx.tx_id \notin DOMAIN tx_states
         /\ ~Locked(tx.client_id)) =>
            LET c   == tx.client_id
                a   == Unwrap(tx.amount)
                acc == AccountOf(c)
                out == After(tx)
            IN  /\ out.res = "Ok"
                /\ DOMAIN out.tx_states = DOMAIN tx_states \cup {tx.tx_id}
                /\ \A t \in DOMAIN tx_states : out.tx_states[t] = tx_states[t]
                /\ out.tx_states[tx.tx_id].type_ = "Deposit"
                /\ out.tx_states[tx.tx_id].client_id = c
                /\ out.tx_states[tx.tx_id].disputed = FALSE
                /\ out.tx_states[tx.tx_id].charged_back = FALSE
                /\ out.accounts[c] =
                      [acc EXCEPT !.total     = F32Add(acc.total, Abs(a)),
                                  !.available = F32Add(acc.available, Abs(a))]
                /\ DOMAIN out.accounts = DOMAIN accounts \cup {c}
                /\ \A d \in DOMAIN accounts \ {c} : out.accounts[d] = accounts[d]

\* a deposit of a negative amount has been taken and counted with its magnitude
C9_Witness ==
    \E t \in DOMAIN tx_states :
        /\ tx_states[t].type_ = "Deposit"
        /\ tx_states[t].amount < 0
        /\ Normal(tx_states[t])
        /\ accounts[tx_states[t].client_id].total = -tx_states[t].amount
        /\ accounts[tx_states[t].client_id].available = -tx_states[t].amount

\* C10: a Withdrawal with amount a, on an unused tx id and an unlocked account,
\* is executed exactly when a <= available; executed, it subtracts a from total
\* and from available, leaves held as it was and creates an entry of kind
\* Withdrawal for its tx id.
C10_WithdrawalEffect ==
    \A tx \in Records :
        (/\ tx.type_ = "Withdrawal" /\ HasAmount(tx)
         /\ tx.tx_id \notin DOMAIN tx_states
         /\ ~Locked(tx.client_id)) =>
            LET c   == tx.client_id
                a   == Unwrap(tx.amount)
                acc == AccountOf(c)
                out == After(tx)
                executed == tx.tx_id \in DOMAIN out.tx_states
            IN  /\ out.res = "Ok"
                /\ executed <=> a <= acc.available
                /\ executed =>
                      /\ out.accounts[c] =
                            [acc EXCEPT
                               !.total     = F32Sub(acc.total, a),
                               !.available = F32Sub(acc.available, a)]
                      /\ out.tx_states[tx.tx_id].type_ = "Withdrawal"
                      /\ out.tx_states[tx.tx_id].client_id = c
                /\ ~executed =>
                      /\ out.accounts[c] = acc
                      /\ out.tx_states = tx_states

\* two withdrawals in a row have brought a client's available down to exactly 0
C10_Witness ==
    \E c \in DOMAIN accounts :
        /\ accounts[c].available = 0 /\ accounts[c].total = 0
        /\ Cardinality({t \in DOMAIN tx_states :
                            /\ tx_states[t].type_ = "Withdrawal"
                            /\ tx_states[t].client_id = c}) = 2

DisputeKinds == {"Dispute", "Resolve", "Chargeback"}

\* the call returns Ok and changes nothing but, at most, creating the zero
\* account of a client the table did not hold
NoOpFrom(tx, accs, txs) ==
    process_tx(tx, accs, txs) = Outcome("Ok", OrInsert(accs, tx.client_id), txs)

\* C11: a Withdrawal whose amount is greater than the account's available
\* returns Ok and changes nothing: balances and lock as they were, no ledger
\* entry for its tx id, so a later Dispute, Resolve or Chargeback on that
\* tx id is a no-op too.
C11_InsufficientFundsIsNoOp ==
    \A tx \in Records :
        (/\ tx.type_ = "Withdrawal" /\ HasAmount(tx)
         /\ Unwrap(tx.amount) > AccountOf(tx.client_id).available) =>
            LET out == After(tx)
            IN  /\ NoOpFrom(tx, accounts, tx_states)
                /\ out.accounts[tx.client_id] = AccountOf(tx.client_id)
                /\ \A c \in DOMAIN accounts : out.accounts[c] = accounts[c]
                /\ tx.tx_id \notin DOMAIN tx_states =>
                      /\ tx.tx_id \notin DOMAIN out.tx_states
                      /\ \A tx2 \in Records :
                            (tx2.type_ \in DisputeKinds /\ tx2.tx_id = tx.tx_id) =>
                                NoOpFrom(tx2, out.accounts, out.tx_states)

\* a client with money, unlocked, and a withdrawal of more than it has on a
\* fresh tx id: the call leaves the balance and the ledger as they were
C11_Witness ==
    \E tx \in Records :
        /\ tx.type_ = "Withdrawal" /\ HasAmount(tx)
        /\ tx.client_id \in DOMAIN accounts
        /\ ~Locked(tx.client_id)
        /\ accounts[tx.client_id].available > 0
        /\ Unwrap(tx.amount) > accounts[tx.client_id].available
        /\ tx.tx_id \notin DOMAIN tx_states
        /\ After(tx) = Outcome("Ok", accounts, tx_states)

\* this step is the call process_tx(tx, ..)
StepOf(tx) ==
    /\ accounts' = After(tx).accounts
    /\ tx_states' = After(tx).tx_states

\* tx is a Dispute from an unlocked client on a Deposit entry that is not
\* disputed
DisputeApplies(tx) ==
    /\ tx.type_ = "Dispute"
    /\ ~Locked(tx.client_id)
    /\ tx.tx_id \in DOMAIN tx_states
    /\ tx_states[tx.tx_id].type_ = "Deposit"
    /\ tx_states[tx.tx_id].disputed = FALSE

\* C12: a Dispute on a Deposit entry with disputed == false, on an unlocked
\* account, sets the entry to disputed == true, charged_back == false and moves
\* |amount| from available to held, total and locked as they were, for every
\* deposit amount, negative ones included.
C12_DisputeMovesAbsAmount ==
    [][\A tx \in Records :
          (DisputeApplies(tx) /\ StepOf(tx)) =>
              LET e   == tx_states[tx.tx_id]
                  acc == AccountOf(tx.client_id)
              IN  /\ tx_states'[tx.tx_id] =
                        [e EXCEPT !.disputed = TRUE, !.charged_back = FALSE]
                  /\ accounts'[tx.client_id] =
                        [acc EXCEPT
                           !.available = F32Sub(acc.available, Abs(e.amount)),
                           !.held      = F32Add(acc.held, Abs(e.amount))]
      ]_vars

\* C13: Resolve undoes Dispute: where a Dispute on a deposit entry succeeds,
\* the Dispute followed by a Resolve for the same tx id and client gives back
\* the account (available, held, total, locked) and the entry (both flags
\* false) exactly as they were before the Dispute.
C13_ResolveUndoesDispute ==
    \A tx \in Records :
        (DisputeApplies(tx) /\ Normal(tx_states[tx.tx_id])) =>
            LET d == After(tx)
                r == process_tx(Tx("Resolve", tx.client_id, tx.tx_id, None),
                                d.accounts, d.tx_states)
            IN  /\ d.tx_states[tx.tx_id].disputed
                /\ r.accounts[tx.client_id] = AccountOf(tx.client_id)
                /\ r.tx_states = tx_states

\* C14: a Chargeback on a Deposit entry with disputed == true, on an unlocked
\* account, subtracts the entry's amount from total and from held, leaves
\* available as it was, locks the account and sets the entry to
\* disputed == false, charged_back == true.
C14_ChargebackEffect ==
    \A tx \in Records :
        (/\ tx.type_ = "Chargeback"
         /\ ~Locked(tx.client_id)
         /\ tx.tx_id \in DOMAIN tx_states
         /\ tx_states[tx.tx_id].type_ = "Deposit"
         /\ tx_states[tx.tx_id].disputed = TRUE) =>
            LET c   == tx.client_id
                e   == tx_states[tx.tx_id]
                acc == AccountOf(c)
                out == After(tx)
            IN  /\ out.res = "Ok"
                /\ out.accounts[c] =
                      [acc EXCEPT !.total  = F32Sub(acc.total, e.amount),
                                  !.held   = F32Sub(acc.held, e.amount),
                                  !.locked = TRUE]
                /\ out.accounts[c].available = acc.available
                /\ out.tx_states =
                      [tx_states EXCEPT ![tx.tx_id] =
                          [e EXCEPT !.disputed = FALSE, !.charged_back = TRUE]]
                /\ \A d \in DOMAIN accounts \ {c} : out.accounts[d] = accounts[d]

\* a deposit was disputed and charged back by its owner: the entry is charged
\* back, the owner is locked with nothing held and the deposit gone from total
C14_Witness ==
    \E t \in DOMAIN tx_states :
        LET e == tx_states[t]
        IN  /\ e.charged_back /\ ~e.disputed
            /\ e.amount > 0
            /\ accounts[e.client_id].locked
            /\ accounts[e.client_id].held = 0
            /\ accounts[e.client_id].total = 0
            /\ accounts[e.client_id].available = 0

\* C15: a Withdrawal entry is never disputed: each one has disputed == false
\* and charged_back == false, and a Dispute, Resolve or Chargeback on a
\* Withdrawal entry changes no account and no ledger entry.
C15_WithdrawalNeverDisputed ==
    /\ \A t \in DOMAIN tx_states :
          tx_states[t].type_ = "Withdrawal" => Normal(tx_states[t])
    /\ \A tx \in Records :
          (/\ tx.type_ \in DisputeKinds
           /\ tx.tx_id \in DOMAIN tx_states
           /\ tx_states[tx.tx_id].type_ = "Withdrawal") =>
              /\ NoOpFrom(tx, accounts, tx_states)
              /\ \A c \in DOMAIN accounts : After(tx).accounts[c] = accounts[c]

\* a withdrawal was executed, and its owner, unlocked, disputes it
C15_Witness ==
    \E tx \in Records :
        /\ tx.type_ = "Dispute"
        /\ tx.tx_id \in DOMAIN tx_states
        /\ tx_states[tx.tx_id].type_ = "Withdrawal"
        /\ tx_states[tx.tx_id].client_id = tx.client_id
        /\ ~Locked(tx.client_id)
        /\ After(tx) = Outcome("Ok", accounts, tx_states)

\* C16: a Deposit or Withdrawal whose tx id already has a ledger entry, of the
\* same client or of another, returns Ok and changes nothing: the entry keeps
\* its amount, kind, owner and flags and no balance changes.
C16_UsedTxIdIsNoOp ==
    \A tx \in Records :
        (tx.type_ \in {"Deposit", "Withdrawal"} /\ tx.tx_id \in DOMAIN tx_states) =>
            /\ NoOpFrom(tx, accounts, tx_states)
            /\ After(tx).tx_states[tx.tx_id] = tx_states[tx.tx_id]
            /\ \A c \in DOMAIN accounts : After(tx).accounts[c] = accounts[c]

\* a deposit with an amount, from an unlocked client, on a tx id that an entry
\* of another client holds
C16_Witness ==
    \E tx \in Records :
        /\ tx.type_ = "Deposit" /\ HasAmount(tx)
        /\ tx.tx_id \in DOMAIN tx_states
        /\ tx_states[tx.tx_id].client_id # tx.client_id
        /\ tx.client_id \in DOMAIN accounts /\ ~Locked(tx.client_id)
        /\ After(tx) = Outcome("Ok", accounts, tx_states)

\* C17: a Dispute, Resolve or Chargeback whose tx id has no ledger entry
\* returns Ok, creates no entry and changes no entry and no balance or lock
\* flag of any account.
C17_UnknownTxIdIsNoOp ==
    \A tx \in Records :
        (tx.type_ \in DisputeKinds /\ tx.tx_id \notin DOMAIN tx_states) =>
            /\ NoOpFrom(tx, accounts, tx_states)
            /\ After(tx).accounts[tx.client_id] = AccountOf(tx.client_id)
            /\ \A c \in DOMAIN accounts : After(tx).accounts[c] = accounts[c]

\* a client with a deposit of its own, unlocked, sends a Chargeback for a tx id
\* the ledger does not know
C17_Witness ==
    \E tx \in Records :
        /\ tx.type_ = "Chargeback"
        /\ tx.tx_id \notin DOMAIN tx_states
        /\ \E t \in DOMAIN tx_states : tx_states[t].client_id = tx.client_id
        /\ ~Locked(tx.client_id)
        /\ After(tx) = Outcome("Ok", accounts, tx_states)

\* C18: Dispute is idempotent: a Dispute on an entry that is already disputed
\* leaves the account table and the ledger identical, so the same Dispute
\* record processed twice in a row gives the state of processing it once.
C18_DisputeIdempotent ==
    \A tx \in Records :
        tx.type_ = "Dispute" =>
            LET once  == After(tx)
                twice == process_tx(tx, once.accounts, once.tx_states)
            IN  /\ twice = Outcome("Ok", once.accounts, once.tx_states)
                /\ (tx.tx_id \in DOMAIN tx_states /\ tx_states[tx.tx_id].disputed) =>
                      NoOpFrom(tx, accounts, tx_states)

\* an entry under dispute with money held for it, and its owner, unlocked,
\* disputes it again
C18_Witness ==
    \E tx \in Records :
        /\ tx.type_ = "Dispute"
        /\ tx.tx_id \in DOMAIN tx_states
        /\ Disputed(tx_states[tx.tx_id])
        /\ tx_states[tx.tx_id].client_id = tx.client_id
        /\ ~Locked(tx.client_id)
        /\ accounts[tx.client_id].held > 0
        /\ After(tx) = Outcome("Ok", accounts, tx_states)

\* C19: a Resolve or a Chargeback on an entry with disputed == false returns Ok
\* and changes nothing: available, held and total as they were, the account
\* not locked by it, the entry's flags as they were.
C19_UndisputedResolveChargebackIsNoOp ==
    \A tx \in Records :
        (/\ tx.type_ \in {"Resolve", "Chargeback"}
         /\ tx.tx_id \in DOMAIN tx_states
         /\ tx_states[tx.tx_id].disputed = FALSE) =>
            /\ NoOpFrom(tx, accounts, tx_states)
            /\ After(tx).accounts[tx.client_id] = AccountOf(tx.client_id)
            /\ After(tx).tx_states[tx.tx_id] = tx_states[tx.tx_id]

\* a deposit that was never disputed, its money available, and its owner,
\* unlocked, sends a Chargeback for it
C19_Witness ==
    \E tx \in Records :
        /\ tx.type_ = "Chargeback"
        /\ tx.tx_id \in DOMAIN tx_states
        /\ tx_states[tx.tx_id].type_ = "Deposit"
        /\ Normal(tx_states[tx.tx_id])
        /\ tx_states[tx.tx_id].client_id = tx.client_id
        /\ ~Locked(tx.client_id)
        /\ accounts[tx.client_id].available > 0
        /\ After(tx) = Outcome("Ok", accounts, tx_states)

ZeroAccount(c) ==
    [client |-> c, available |-> 0, held |-> 0, total |-> 0, locked |-> FALSE]

\* C20: accounts are created lazily and never removed: the table is empty
\* before the first record, each record adds exactly its client id to the
\* keys and removes none; an account first referenced by a record that is a
\* no-op has zero balances and is unlocked; the client field equals the key.
C20_AccountsCreatedLazily ==
    /\ nrec = 0 => accounts = EmptyMap
    /\ Cardinality(DOMAIN accounts) <= nrec
    /\ \A c \in DOMAIN accounts : accounts[c].client = c
    /\ \A tx \in Records :
          LET out == After(tx)
          IN  /\ DOMAIN out.accounts = DOMAIN accounts \cup {tx.client_id}
              /\ out.accounts[tx.client_id].client = tx.client_id
              /\ (tx.client_id \notin DOMAIN accounts /\ out.tx_states = tx_states) =>
                    out.accounts[tx.client_id] = ZeroAccount(tx.client_id)

\* two records, two clients, the latest call Ok: one client owns the only
\* entry, the other was named by a record that did nothing and has the zero
\* account
C20_Witness ==
    /\ last_res = "Ok"
    /\ nrec = 2
    /\ DOMAIN accounts = Clients
    /\ \E c \in Clients :
          /\ accounts[c] = ZeroAccount(c)
          /\ \A t \in DOMAIN tx_states : tx_states[t].client_id # c
          /\ \E t \in DOMAIN tx_states : Normal(tx_states[t])

\* C21: ledger entries are created once and never deleted or replaced: the
\* set of tx ids only grows, an entry is inserted only by a Deposit or an
\* executed Withdrawal whose tx id had no entry, and the amount, kind and owner
\* of an entry never change.
C21_LedgerOnlyGrows ==
    \A tx \in Records :
        LET out == After(tx)
        IN  /\ DOMAIN tx_states \subseteq DOMAIN out.tx_states
            /\ \A t \in DOMAIN tx_states :
                  /\ out.tx_states[t].amount = tx_states[t].amount
                  /\ out.tx_states[t].type_ = tx_states[t].type_
                  /\ out.tx_states[t].client_id = tx_states[t].client_id
            /\ DOMAIN out.tx_states # DOMAIN tx_states =>
                  /\ DOMAIN out.tx_states = DOMAIN tx_states \cup {tx.tx_id}
                  /\ tx.tx_id \notin DOMAIN tx_states
                  /\ tx.type_ \in {"Deposit", "Withdrawal"} /\ HasAmount(tx)
                  /\ out.tx_states[tx.tx_id].type_ = tx.type_
                  /\ tx.type_ = "Withdrawal" =>
                        /\ Unwrap(tx.amount) <= AccountOf(tx.client_id).available
                        /\ out.accounts[tx.client_id].available =
                              F32Sub(AccountOf(tx.client_id).available,
                                     Unwrap(tx.amount))

\* three calls have left two entries, one of them disputed since its creation,
\* and a further deposit would add a third
C21_Witness ==
    /\ nrec = 3
    /\ Cardinality(DOMAIN tx_states) = 2
    /\ \E t \in DOMAIN tx_states : Disputed(tx_states[t])
    /\ \E tx \in Records :
          /\ tx.type_ = "Deposit" /\ HasAmount(tx)
          /\ Cardinality(DOMAIN After(tx).tx_states) = 3

\* C22: one record changes at most one ledger entry, the one of its own
\* tx id, and changes its disputed or charged_back flag only when it is a
\* Dispute, Resolve or Chargeback; every entry with another tx id is unchanged.
C22_OnlyOwnEntryChanges ==
    \A tx \in Records :
        LET out == After(tx)
        IN  /\ DOMAIN out.tx_states \subseteq DOMAIN tx_states \cup {tx.tx_id}
            /\ \A t \in DOMAIN tx_states \cap DOMAIN out.tx_states :
                  \/ out.tx_states[t] = tx_states[t]
                  \/ t = tx.tx_id /\ tx.type_ \in DisputeKinds

\* two entries, and a Dispute by an unlocked client that changes the flags of
\* the one it names while the other stays
C22_Witness ==
    \E tx \in Records :
        /\ tx.type_ = "Dispute"
        /\ Cardinality(DOMAIN tx_states) = 2
        /\ tx.tx_id \in DOMAIN tx_states
        /\ After(tx).tx_states[tx.tx_id].disputed
        /\ ~tx_states[tx.tx_id].disputed
        /\ \A t \in DOMAIN tx_states \ {tx.tx_id} :
              After(tx).tx_states[t] = tx_states[t]

\* C23: clients do not interfere: the account of a client depends only on the
\* records that carry its client id, so two inputs with the same records of
\* that client give it the same account whatever the other clients send.
C23_ClientsDoNotInterfere ==
    /\ ObservedClient \in DOMAIN accounts <=> ObservedClient \in DOMAIN accounts2
    /\ ObservedClient \in DOMAIN accounts \cap DOMAIN accounts2 =>
          accounts[ObservedClient] = accounts2[ObservedClient]

\* tx is a Dispute, Resolve or Chargeback on an entry that another client owns
ForeignEntry(tx) ==
    /\ tx.type_ \in DisputeKinds
    /\ tx.tx_id \in DOMAIN tx_states
    /\ tx_states[tx.tx_id].client_id # tx.client_id

\* C24: a Dispute, Resolve or Chargeback whose client id differs from the owner
\* of the entry it names changes no account balance, no lock flag and no flag
\* of the entry.
C24_OnlyOwnerDisputes ==
    [][\A tx \in Records :
          (ForeignEntry(tx) /\ StepOf(tx)) =>
              /\ tx_states' = tx_states
              /\ \A c \in DOMAIN accounts : accounts'[c] = accounts[c]
              /\ accounts'[tx.client_id] = AccountOf(tx.client_id)
      ]_vars

\* the sum of the amounts of the entries in S
RECURSIVE SumOfAmounts(_)
SumOfAmounts(S) ==
    IF S = {} THEN 0
    ELSE LET t == CHOOSE x \in S : TRUE
         IN  tx_states[t].amount + SumOfAmounts(S \ {t})

\* the entries of client c that are under dispute
DisputedOf(c) ==
    { t \in DOMAIN tx_states : tx_states[t].client_id = c /\ tx_states[t].disputed }

\* C25: with positive amounts and every Dispute, Resolve and Chargeback sent by
\* the owner of its entry, each account's held equals the sum of the amounts
\* of the client's entries with disputed == true, so held is never negative.
C25_HeldIsSumOfDisputed ==
    \A c \in DOMAIN accounts :
        /\ accounts[c].held = SumOfAmounts(DisputedOf(c))
        /\ accounts[c].held >= 0

\* C26 as claimed: with positive amounts, available is never negative in any
\* account.
C26_AvailableNeverNegative ==
    \A c \in DOMAIN accounts : accounts[c].available >= 0

\* C26 as amended: with positive amounts, a Deposit, Withdrawal, Resolve or
\* Chargeback never takes available below zero or further below it; the one
\* step that does is a Dispute that is applied, sent by the account's client,
\* which moves the amount out of available whatever is left there.
C26_OnlyDisputeOverdraws ==
    [][\A c \in DOMAIN accounts' :
          (/\ accounts'[c].available < 0
           /\ accounts'[c].available < AccountOf(c).available) =>
              \E tx \in Records :
                  /\ tx.client_id = c
                  /\ DisputeApplies(tx)
                  /\ StepOf(tx)
                  /\ accounts'[c].available =
                        F32Sub(AccountOf(c).available, tx_states[tx.tx_id].amount)
      ]_vars

\* a client has withdrawn money it had deposited and the deposit is under
\* dispute: available is below zero, by the amount held
C26_Witness ==
    \E c \in DOMAIN accounts :
        /\ accounts[c].available < 0
        /\ accounts[c].held = -accounts[c].available
        /\ \E t \in DOMAIN tx_states :
              tx_states[t].type_ = "Withdrawal" /\ tx_states[t].client_id = c
        /\ \E t \in DOMAIN tx_states :
              tx_states[t].type_ = "Deposit" /\ tx_states[t].client_id = c
                  /\ tx_states[t].disputed

\* C27: an account becomes locked only by a Chargeback record that carries the
\* account's client id and names a Deposit entry with disputed == true; no
\* other record and no ignored Chargeback sets locked, and a record locks at
\* most the account of its own client id.
C27_LockedOnlyByChargeback ==
    \A tx \in Records :
        LET out == After(tx)
        IN  \A c \in DOMAIN out.accounts :
                (out.accounts[c].locked /\ ~Locked(c)) =>
                    /\ c = tx.client_id
                    /\ tx.type_ = "Chargeback"
                    /\ tx.tx_id \in DOMAIN tx_states
                    /\ tx_states[tx.tx_id].type_ = "Deposit"
                    /\ tx_states[tx.tx_id].disputed = TRUE
                    /\ out.tx_states[tx.tx_id].charged_back

\* a chargeback has locked one account and left its entry charged back; a
\* further Chargeback, sent by a client that is not locked on an entry of the
\* ledger, locks nobody
C27_Witness ==
    /\ \E c \in DOMAIN accounts : accounts[c].locked
    /\ \E t \in DOMAIN tx_states : tx_states[t].charged_back
    /\ \E tx \in Records :
          /\ tx.type_ = "Chargeback"
          /\ tx.client_id \in DOMAIN accounts /\ ~Locked(tx.client_id)
          /\ tx.tx_id \in DOMAIN tx_states
          /\ ~After(tx).accounts[tx.client_id].locked

\* C28: no ledger entry has disputed == true and charged_back == true at the
\* same time, and every newly inserted entry has both flags false.
C28_FlagsExclusive ==
    /\ \A t \in DOMAIN tx_states :
          ~(tx_states[t].disputed /\ tx_states[t].charged_back)
    /\ \A tx \in Records :
          \A t \in DOMAIN After(tx).tx_states \ DOMAIN tx_states :
              Normal(After(tx).tx_states[t])

\* the only entry of the ledger went through Dispute and Chargeback in three
\* calls: it is charged back and no longer disputed
C28_Witness ==
    /\ nrec = 3
    /\ \E t \in DOMAIN tx_states :
          /\ DOMAIN tx_states = {t}
          /\ tx_states[t].charged_back
          /\ ~tx_states[t].disputed

\* C29: the process_tx of main.rs and the process_tx of transaction.rs are
\* equivalent: fed the same records from empty maps they return the same
\* result for every record and keep the same account table after every
\* record.
C29_CopiesEquivalent ==
    /\ main_accounts = accounts
    /\ Len(main_res) > 0 => main_res[Len(main_res)] = last_res

====
